---------------------------- MODULE Spec2Model ----------------------------
(***************************************************************************)
(* A model of the TrueType glyph decoder of src/src/main.rs:               *)
(* Font::read_truetype (table directory, maxp, head, loca, glyf),          *)
(* GlyphData::from_cursor (one glyph record) and get_coordinates.          *)
(*                                                                         *)
(* The file is a sequence of bytes 0..255.  Cursor positions are 0-based,  *)
(* as in std::io::Cursor, sequences are 1-based.  32-bit fields of the     *)
(* file are kept as two 16-bit halves [hi, lo], because their sums are     *)
(* taken modulo 2^32 by the program and do not fit the checker's integers. *)
(***************************************************************************)
EXTENDS Integers, Sequences, FiniteSets, TLC

VARIABLES
    opened,               \* File::open succeeded (line 131)
    contents,             \* the bytes of the file (line 132)
    overflow_checks,      \* the build traps integer overflow (debug) or wraps (release)
    pc,                   \* position in read_truetype / from_cursor
    tables,               \* tag -> [offset] (line 141)
    num_glyphs,           \* line 159
    use_two_byte_entry,   \* line 165
    glyph_locations,      \* line 173
    glyph_data,           \* glyph_data_list, line 174
    i,                    \* index of the loops at lines 176 and 198
    pos,                  \* the position of the cursor (line 135)
    start,                \* cursor position at which from_cursor was entered
    num_contours,         \* num_contour_end_indices, line 61
    contour_end_indices,  \* line 59
    num_points,           \* line 68
    fi,                   \* the counter i of the flag loop, line 77
    flags,                \* line 75
    x_coords,             \* line 93
    y_coords,             \* line 94
    ci,                   \* the index i of the loop of get_coordinates, line 22
    coords,               \* the vector coords of get_coordinates, line 20
    nread,                \* bytes read from the cursor by the current from_cursor call
    glyph_start_offsets,  \* glyph_start_offset (line 182) of each index located so far
    fault                 \* why pc is "error" or "panic", or the Err of from_cursor

vars == <<opened, contents, overflow_checks, pc, tables, num_glyphs,
          use_two_byte_entry, glyph_locations, glyph_data, i, pos, start,
          num_contours, contour_end_indices, num_points, fi, flags,
          x_coords, y_coords, ci, coords, nread, glyph_start_offsets, fault>>

-----------------------------------------------------------------------------
(* Bounds of the explored inputs *)

MaxGlyphs == 2

MaxTail == 3

-----------------------------------------------------------------------------
(* Integer widths *)

TwoTo8 == 256

TwoTo15 == 32768

TwoTo16 == 65536

RECURSIVE Pow2(_)
Pow2(k) == IF k = 0 THEN 1 ELSE 2 * Pow2(k - 1)

\* flag >> flag_bit_index & 1 == 1
bit_is_set(flag, flag_bit_index) == ((flag \div Pow2(flag_bit_index)) % 2) = 1

\* the value of 16 bits read as i16
AsI16(v) == IF v >= TwoTo15 THEN v - TwoTo16 ELSE v

\* i16 addition: [val, overflow]
AddI16(a, b) ==
    LET s == a + b
    IN  [val |-> AsI16((s + TwoTo16) % TwoTo16),
         overflow |-> (s >= TwoTo15) \/ (s < 0 - TwoTo15)]

\* u16 addition: [val, overflow]
AddU16(a, b) ==
    [val |-> (a + b) % TwoTo16, overflow |-> (a + b) >= TwoTo16]

\* u32 values as [hi, lo], value hi * 2^16 + lo
Wide(n) == [hi |-> n \div TwoTo16, lo |-> n % TwoTo16]

\* u32 addition: [val, overflow]
AddU32(a, b) ==
    LET l == a.lo + b.lo
        h == a.hi + b.hi + (l \div TwoTo16)
    IN  [val |-> [hi |-> h % TwoTo16, lo |-> l % TwoTo16],
         overflow |-> h >= TwoTo16]

\* u64 addition of a u32 and a small number: never overflows
AddU64(a, n) ==
    [hi |-> a.hi + ((a.lo + n) \div TwoTo16), lo |-> (a.lo + n) % TwoTo16]

\* (w as usize) > n, for n below 2^31
WideGT(w, n) ==
    IF w.hi >= TwoTo15 THEN TRUE ELSE (w.hi * TwoTo16 + w.lo) > n

WideToInt(w) == w.hi * TwoTo16 + w.lo

-----------------------------------------------------------------------------
(* The cursor: reads of big-endian values at a 0-based position *)

CanRead(buf, p, n) == p >= 0 /\ p + n <= Len(buf)

CanReadW(buf, w, n) == ~WideGT(w, Len(buf)) /\ CanRead(buf, WideToInt(w), n)

read_u8(buf, p) == buf[p + 1]

read_u16(buf, p) == buf[p + 1] * TwoTo8 + buf[p + 2]

read_i16(buf, p) == AsI16(read_u16(buf, p))

read_u32(buf, p) == [hi |-> read_u16(buf, p), lo |-> read_u16(buf, p + 2)]

\* a read that meets the end of the buffer (UnexpectedEof) leaves the cursor at
\* the end of the buffer, also when the cursor stood beyond it
EofPosition(buf) == Len(buf)

\* cursor.seek(SeekFrom::Current(n)): a negative target is an error and the
\* position stays; the callers at lines 62 and 72 only move the position
SeekCurrent(p, n) == IF p + n < 0 THEN p ELSE p + n

-----------------------------------------------------------------------------
(* The table directory, lines 136-154 *)

IsCont(b) == b >= 128 /\ b <= 191

\* String::from_utf8(buf) is Ok: buf is well-formed UTF-8
RECURSIVE Utf8Valid(_)
Utf8Valid(s) ==
    IF s = <<>> THEN TRUE
    ELSE LET b == s[1]
             n == Len(s)
         IN  IF b < 128 THEN Utf8Valid(Tail(s))
             ELSE IF b >= 194 /\ b <= 223
                  THEN n >= 2 /\ IsCont(s[2]) /\ Utf8Valid(SubSeq(s, 3, n))
             ELSE IF b >= 224 /\ b <= 239
                  THEN /\ n >= 3
                       /\ IsCont(s[2])
                       /\ (b = 224 => s[2] >= 160)
                       /\ (b = 237 => s[2] <= 159)
                       /\ IsCont(s[3])
                       /\ Utf8Valid(SubSeq(s, 4, n))
             ELSE IF b >= 240 /\ b <= 244
                  THEN /\ n >= 4
                       /\ IsCont(s[2])
                       /\ (b = 240 => s[2] >= 144)
                       /\ (b = 244 => s[2] <= 143)
                       /\ IsCont(s[3])
                       /\ IsCont(s[4])
                       /\ Utf8Valid(SubSeq(s, 5, n))
             ELSE FALSE

TagMaxp == <<109, 97, 120, 112>>
TagHead == <<104, 101, 97, 100>>
TagLoca == <<108, 111, 99, 97>>
TagGlyf == <<103, 108, 121, 102>>

\* the loop at lines 142-154, from entry k on; the cursor stands at 12 + 16 k
RECURSIVE ReadTables(_, _, _, _)
ReadTables(buf, k, n, acc) ==
    IF k = n THEN [status |-> "ok", tables |-> acc, pos |-> 12 + 16 * k]
    ELSE LET p == 12 + 16 * k
         IN  IF ~CanRead(buf, p, 4)
             THEN [status |-> "error", tables |-> acc, pos |-> EofPosition(buf)]
             ELSE LET tag == SubSeq(buf, p + 1, p + 4)
                  IN  IF ~Utf8Valid(tag)
                      THEN [status |-> "panic", tables |-> acc, pos |-> p + 4]
                      ELSE IF ~CanRead(buf, p + 4, 12)
                      THEN [status |-> "error", tables |-> acc,
                            pos |-> EofPosition(buf)]
                      ELSE LET e == [check_sum |-> read_u32(buf, p + 4),
                                     offset |-> read_u32(buf, p + 8),
                                     length |-> read_u32(buf, p + 12)]
                           IN  ReadTables(buf, k + 1, n,
                                   [t \in (DOMAIN acc) \cup {tag} |->
                                       IF t = tag THEN e ELSE acc[t]])

-----------------------------------------------------------------------------
(* get_coordinates, lines 18-47 *)

\* lines 28-34: the bits of the flag that describe this axis
ShortBit(is_x) == IF is_x THEN 1 ELSE 2

SameBit(is_x) == IF is_x THEN 4 ELSE 5

\* line 39-40: the delta of a one-byte offset
ShortDelta(is_positive_short, offset) ==
    IF is_positive_short THEN offset ELSE 0 - offset

\* line 20
Zeros(n) == [k \in 1..n |-> 0]

-----------------------------------------------------------------------------
(* GlyphData::from_cursor, lines 57-111 *)

Copies(n, flag) == [k \in 1..n |-> flag]

\* line 83: the repeat bit
IsRepeat(flag) == bit_is_set(flag, 3)

\* the test at line 63 on a count that is never negative
IsSimpleCountUnsigned(n) == n >= 0 - TwoTo15

\* line 63: the record is decoded as a simple glyph
IsSimpleCount(n) == n >= 0

GlyphFail(why) ==
    /\ pc' = "g_err"
    /\ fault' = why

GlyphPanic(why) ==
    /\ pc' = "panic"
    /\ fault' = why

\* lines 61-63 and 102-110
Header ==
    /\ pc = "g_header"
    /\ UNCHANGED <<opened, contents, overflow_checks, tables, num_glyphs,
                   use_two_byte_entry, glyph_locations, glyph_data, i, start,
                   contour_end_indices, num_points, fi, flags, x_coords,
                   y_coords, ci, coords, glyph_start_offsets>>
    /\ IF ~CanRead(contents, pos, 2)
       THEN /\ GlyphFail("eof")
            /\ pos' = EofPosition(contents)
            /\ UNCHANGED <<num_contours, nread>>
       ELSE /\ num_contours' = read_i16(contents, pos)
            /\ pos' = SeekCurrent(pos + 2, 8)
            /\ nread' = nread + 2
            /\ pc' = IF IsSimpleCount(num_contours') THEN "g_contours" ELSE "g_ok"
            /\ UNCHANGED fault

\* how many of n u16 values the cursor at p can deliver
ReadableU16(buf, p, n) ==
    LET room == IF Len(buf) > p THEN (Len(buf) - p) \div 2 ELSE 0
    IN  IF n <= room THEN n ELSE room

\* lines 64-68
ContourBounds ==
    /\ pc = "g_contours"
    /\ UNCHANGED <<opened, contents, overflow_checks, tables, num_glyphs,
                   use_two_byte_entry, glyph_locations, glyph_data, i, start,
                   num_contours, fi, flags, x_coords, y_coords, ci, coords,
                   glyph_start_offsets>>
    /\ LET k == ReadableU16(contents, pos, num_contours)
           ends == [j \in 1..k |-> read_u16(contents, pos + 2 * (j - 1))]
       IN  /\ contour_end_indices' = ends
           /\ nread' = nread + 2 * k
           /\ IF k < num_contours
              THEN /\ GlyphFail("eof")
                   /\ pos' = EofPosition(contents)
                   /\ UNCHANGED num_points
              ELSE /\ pos' = pos + 2 * k
                   /\ IF ends = <<>>
                      THEN /\ GlyphPanic("no_contours")
                           /\ UNCHANGED num_points
                      ELSE LET np == AddU16(ends[Len(ends)], 1)
                           IN  IF np.overflow /\ overflow_checks
                               THEN /\ GlyphPanic("num_points_overflow")
                                    /\ UNCHANGED num_points
                               ELSE /\ num_points' = np.val
                                    /\ pc' = "g_instr"
                                    /\ UNCHANGED fault

\* the loop at lines 78-91 goes on, or get_coordinates is entered (line 93)
AfterFlags(counter, points) == IF counter < points THEN "g_flags" ELSE "g_xcoords"

\* lines 71-77, and the first test of the loop at line 78
Instructions ==
    /\ pc = "g_instr"
    /\ UNCHANGED <<opened, contents, overflow_checks, tables, num_glyphs,
                   use_two_byte_entry, glyph_locations, glyph_data, i, start,
                   num_contours, contour_end_indices, num_points, x_coords,
                   y_coords, glyph_start_offsets>>
    /\ IF ~CanRead(contents, pos, 2)
       THEN /\ GlyphFail("eof")
            /\ pos' = EofPosition(contents)
            /\ UNCHANGED <<nread, fi, flags, ci, coords>>
       ELSE LET num_instructions == read_i16(contents, pos)
            IN  /\ pos' = SeekCurrent(pos + 2, num_instructions)
                /\ nread' = nread + 2
                /\ fi' = 0
                /\ flags' = <<>>
                /\ ci' = 0
                /\ coords' = <<>>
                /\ pc' = AfterFlags(0, num_points)
                /\ UNCHANGED fault

\* the loop at line 85 taken as 0..=num_repetitions
RepeatedInclusive(flag, num_repetitions) == Copies(num_repetitions + 1, flag)

\* lines 84-88: the flags a repeated flag byte adds after itself
Repeated(flag, num_repetitions) == Copies(num_repetitions, flag)

\* one iteration of the loop at lines 78-91, and the test before the next one;
\* when the loop ends, the entry of get_coordinates (lines 19-20)
FlagStep ==
    /\ pc = "g_flags"
    /\ UNCHANGED <<opened, contents, overflow_checks, tables, num_glyphs,
                   use_two_byte_entry, glyph_locations, glyph_data, i, start,
                   num_contours, contour_end_indices, num_points, x_coords,
                   y_coords, glyph_start_offsets>>
    /\ IF ~CanRead(contents, pos, 1)
       THEN /\ GlyphFail("eof")
            /\ pos' = EofPosition(contents)
            /\ UNCHANGED <<nread, fi, flags>>
       ELSE LET flag == read_u8(contents, pos)
            IN  IF ~IsRepeat(flag)
                THEN /\ flags' = Append(flags, flag)
                     /\ pos' = pos + 1
                     /\ nread' = nread + 1
                     /\ fi' = fi + 1
                     /\ pc' = AfterFlags(fi', num_points)
                     /\ UNCHANGED fault
                ELSE IF ~CanRead(contents, pos + 1, 1)
                THEN /\ flags' = Append(flags, flag)
                     /\ pos' = EofPosition(contents)
                     /\ nread' = nread + 1
                     /\ GlyphFail("eof")
                     /\ UNCHANGED fi
                ELSE LET num_repetitions == read_u8(contents, pos + 1)
                         a == AddU16(fi, num_repetitions)
                         b == AddU16(a.val, 1)
                     IN  /\ flags' = Append(flags, flag)
                                         \o Repeated(flag, num_repetitions)
                         /\ pos' = pos + 2
                         /\ nread' = nread + 2
                         /\ IF (a.overflow \/ b.overflow) /\ overflow_checks
                            THEN /\ GlyphPanic("flag_counter_overflow")
                                 /\ UNCHANGED fi
                            ELSE /\ fi' = b.val
                                 /\ pc' = AfterFlags(fi', num_points)
                                 /\ UNCHANGED fault
    /\ ci' = 0
    /\ coords' = Zeros(Len(flags'))

\* one iteration of the loop of get_coordinates, lines 23-44, in the call at
\* line 93 (x) or line 94 (y)
CoordStep ==
    /\ pc \in {"g_xcoords", "g_ycoords"}
    /\ ci < Len(flags)
    /\ UNCHANGED <<opened, contents, overflow_checks, tables, num_glyphs,
                   use_two_byte_entry, glyph_locations, glyph_data, i, start,
                   num_contours, contour_end_indices, num_points, fi, flags,
                   x_coords, y_coords, glyph_start_offsets>>
    /\ LET is_x == (pc = "g_xcoords")
           prev == IF ci = 0 THEN 0 ELSE coords[ci]
           flag == flags[ci + 1]
           is_short == bit_is_set(flag, ShortBit(is_x))
           is_positive_short == bit_is_set(flag, SameBit(is_x))
           width == IF is_short THEN 1 ELSE IF ~is_positive_short THEN 2 ELSE 0
       IN  IF ~CanRead(contents, pos, width)
           THEN /\ GlyphFail("eof")
                /\ coords' = [coords EXCEPT ![ci + 1] = prev]
                /\ pos' = EofPosition(contents)
                /\ UNCHANGED <<nread, ci>>
           ELSE LET delta == IF is_short
                             THEN ShortDelta(is_positive_short, read_u8(contents, pos))
                             ELSE IF ~is_positive_short
                             THEN read_i16(contents, pos)
                             ELSE 0
                    s == AddI16(prev, delta)
                IN  /\ pos' = pos + width
                    /\ nread' = nread + width
                    /\ IF s.overflow /\ overflow_checks
                       THEN /\ GlyphPanic("coord_overflow")
                            /\ coords' = [coords EXCEPT ![ci + 1] = prev]
                            /\ UNCHANGED ci
                       ELSE /\ coords' = [coords EXCEPT ![ci + 1] = s.val]
                            /\ ci' = ci + 1
                            /\ UNCHANGED <<pc, fault>>

\* line 46, and the assignment at line 93 or 94; after line 93, the entry of
\* the second call (lines 19-20)
CoordsReturn ==
    /\ pc \in {"g_xcoords", "g_ycoords"}
    /\ ~(ci < Len(flags))
    /\ UNCHANGED <<opened, contents, overflow_checks, tables, num_glyphs,
                   use_two_byte_entry, glyph_locations, glyph_data, i, start,
                   num_contours, contour_end_indices, num_points, fi, flags,
                   pos, nread, glyph_start_offsets, fault>>
    /\ ci' = 0
    /\ coords' = Zeros(Len(flags))
    /\ IF pc = "g_xcoords"
       THEN /\ x_coords' = coords
            /\ pc' = "g_ycoords"
            /\ UNCHANGED y_coords
       ELSE /\ y_coords' = coords
            /\ pc' = "g_ok"
            /\ UNCHANGED x_coords

-----------------------------------------------------------------------------
(* Font::read_truetype, lines 130-225 *)

GlyphLocals == <<start, num_contours, contour_end_indices, num_points,
                 fi, flags, x_coords, y_coords, ci, coords, nread>>

Fail(why) ==
    /\ pc' = "error"
    /\ fault' = why

Panic(why) ==
    /\ pc' = "panic"
    /\ fault' = why

\* lines 131-135 and 221-224
OpenFile ==
    /\ pc = "open"
    /\ IF opened
       THEN pc' = "directory" /\ UNCHANGED fault
       ELSE Fail("open")
    /\ UNCHANGED <<opened, contents, overflow_checks, tables, num_glyphs,
                   use_two_byte_entry, glyph_locations, glyph_data, i,
                   glyph_start_offsets, pos>>
    /\ UNCHANGED GlyphLocals

\* lines 136-154
ReadDirectory ==
    /\ pc = "directory"
    /\ UNCHANGED <<opened, contents, overflow_checks, num_glyphs,
                   use_two_byte_entry, glyph_locations, glyph_data, i,
                   glyph_start_offsets>>
    /\ UNCHANGED GlyphLocals
    /\ IF ~CanRead(contents, 4, 2)
       THEN /\ Fail("eof")
            /\ pos' = EofPosition(contents)
            /\ UNCHANGED tables
       ELSE LET r == ReadTables(contents, 0, read_u16(contents, 4), <<>>)
            IN  /\ tables' = r.tables
                /\ pos' = r.pos
                /\ IF r.status = "ok"
                   THEN pc' = "maxp" /\ UNCHANGED fault
                   ELSE IF r.status = "error"
                   THEN Fail("eof")
                   ELSE Panic("utf8")

\* lines 157-160
ReadMaxp ==
    /\ pc = "maxp"
    /\ UNCHANGED <<opened, contents, overflow_checks, tables,
                   use_two_byte_entry, glyph_locations, glyph_data, i,
                   glyph_start_offsets>>
    /\ UNCHANGED GlyphLocals
    /\ IF TagMaxp \notin DOMAIN tables
       THEN Panic("missing_table") /\ UNCHANGED <<num_glyphs, pos>>
       ELSE LET p == AddU64(tables[TagMaxp].offset, 4)
            IN  IF ~CanReadW(contents, p, 2)
                THEN /\ Fail("eof")
                     /\ pos' = EofPosition(contents)
                     /\ UNCHANGED num_glyphs
                ELSE /\ num_glyphs' = read_u16(contents, WideToInt(p))
                     /\ pos' = WideToInt(p) + 2
                     /\ pc' = "head"
                     /\ UNCHANGED fault

\* lines 162-165
ReadHead ==
    /\ pc = "head"
    /\ UNCHANGED <<opened, contents, overflow_checks, tables, num_glyphs,
                   glyph_locations, glyph_data, i, glyph_start_offsets>>
    /\ UNCHANGED GlyphLocals
    /\ IF TagHead \notin DOMAIN tables
       THEN Panic("missing_table") /\ UNCHANGED <<use_two_byte_entry, pos>>
       ELSE LET s == AddU32(tables[TagHead].offset, Wide(50))
            IN  IF s.overflow /\ overflow_checks
                THEN Panic("head_overflow") /\ UNCHANGED <<use_two_byte_entry, pos>>
                ELSE IF ~CanReadW(contents, s.val, 2)
                THEN /\ Fail("eof")
                     /\ pos' = EofPosition(contents)
                     /\ UNCHANGED use_two_byte_entry
                ELSE /\ use_two_byte_entry' =
                            (read_i16(contents, WideToInt(s.val)) = 0)
                     /\ pos' = WideToInt(s.val) + 2
                     /\ pc' = "lookup"
                     /\ UNCHANGED fault

\* lines 167-174
LookupTables ==
    /\ pc = "lookup"
    /\ UNCHANGED <<opened, contents, overflow_checks, tables, num_glyphs,
                   use_two_byte_entry, pos>>
    /\ UNCHANGED GlyphLocals
    /\ IF TagLoca \notin DOMAIN tables \/ TagGlyf \notin DOMAIN tables
       THEN /\ Panic("missing_table")
            /\ UNCHANGED <<glyph_locations, glyph_data, i, glyph_start_offsets>>
       ELSE /\ glyph_locations' = [k \in 1..num_glyphs |-> 0]
            /\ glyph_data' = <<>>
            /\ glyph_start_offsets' = <<>>
            /\ i' = 0
            /\ pc' = IF num_glyphs = 0 THEN "return" ELSE "locate"
            /\ UNCHANGED fault

\* line 178: the width of a loca entry
EntryWidth(two_byte) == IF two_byte THEN 2 ELSE 4

\* lines 182-186: the loca entry at cursor position p as a byte offset
GlyphStartOffset(buf, p, two_byte) ==
    IF two_byte THEN Wide(read_u16(buf, p) * 2) ELSE read_u32(buf, p)

\* line 189: the offset is refused
OffsetBeyondFile(glyph_offset, file_len) == WideGT(glyph_offset, file_len)

\* one iteration of the loop at lines 176-195
LocateGlyph ==
    /\ pc = "locate"
    /\ UNCHANGED <<opened, contents, overflow_checks, tables, num_glyphs,
                   use_two_byte_entry, glyph_data>>
    /\ UNCHANGED GlyphLocals
    /\ LET w == EntryWidth(use_two_byte_entry)
           p == AddU64(tables[TagLoca].offset, i * w)
       IN  IF ~CanReadW(contents, p, w)
           THEN /\ Fail("eof")
                /\ pos' = EofPosition(contents)
                /\ UNCHANGED <<glyph_locations, i, glyph_start_offsets>>
           ELSE LET glyph_start_offset ==
                        GlyphStartOffset(contents, WideToInt(p), use_two_byte_entry)
                    s == AddU32(tables[TagGlyf].offset, glyph_start_offset)
                IN  /\ glyph_start_offsets' =
                            Append(glyph_start_offsets, glyph_start_offset)
                    /\ pos' = WideToInt(p) + w
                    /\ IF s.overflow /\ overflow_checks
                       THEN /\ Panic("glyph_offset_overflow")
                            /\ UNCHANGED <<glyph_locations, i>>
                       ELSE IF OffsetBeyondFile(s.val, Len(contents))
                       THEN /\ Fail("glyph_offset")
                            /\ UNCHANGED <<glyph_locations, i>>
                       ELSE /\ glyph_locations' =
                                   [glyph_locations EXCEPT ![i + 1] = WideToInt(s.val)]
                            /\ i' = IF i + 1 < num_glyphs THEN i + 1 ELSE 0
                            /\ pc' = IF i + 1 < num_glyphs THEN "locate" ELSE "decode"
                            /\ UNCHANGED fault

\* lines 200-203: the seek, and the entry of from_cursor (line 59)
BeginGlyph ==
    /\ pc = "decode"
    /\ UNCHANGED <<opened, contents, overflow_checks, tables, num_glyphs,
                   use_two_byte_entry, glyph_locations, glyph_data, i,
                   glyph_start_offsets>>
    /\ pos' = glyph_locations[i + 1]
    /\ start' = glyph_locations[i + 1]
    /\ num_contours' = 0
    /\ contour_end_indices' = <<>>
    /\ num_points' = 0
    /\ fi' = 0
    /\ flags' = <<>>
    /\ x_coords' = <<>>
    /\ y_coords' = <<>>
    /\ ci' = 0
    /\ coords' = <<>>
    /\ nread' = 0
    /\ fault' = "none"
    /\ pc' = "g_header"

\* lines 96-101 and 104-109: the value from_cursor returns
GlyphValue ==
    [x_coords |-> x_coords,
     y_coords |-> y_coords,
     contour_end_indices |-> IF IsSimpleCount(num_contours)
                             THEN contour_end_indices ELSE <<>>,
     is_simple |-> IsSimpleCount(num_contours)]

\* lines 203-210: the match on the result, and the end of the iteration
MatchResult ==
    /\ pc \in {"g_ok", "g_err"}
    /\ UNCHANGED <<opened, contents, overflow_checks, tables, num_glyphs,
                   use_two_byte_entry, glyph_locations, glyph_start_offsets,
                   fault, pos>>
    /\ UNCHANGED GlyphLocals
    /\ glyph_data' = IF pc = "g_ok"
                     THEN Append(glyph_data, GlyphValue)
                     ELSE glyph_data
    /\ i' = i + 1
    /\ pc' = IF i + 1 < num_glyphs THEN "decode" ELSE "return"

\* lines 215-220
Return ==
    /\ pc = "return"
    /\ pc' = "returned"
    /\ UNCHANGED <<opened, contents, overflow_checks, tables, num_glyphs,
                   use_two_byte_entry, glyph_locations, glyph_data, i,
                   glyph_start_offsets, fault, pos>>
    /\ UNCHANGED GlyphLocals

-----------------------------------------------------------------------------
(* The files explored: font files built field by field *)

BE16(n) == <<n \div TwoTo8, n % TwoTo8>>

BE32(w) == BE16(w.hi) \o BE16(w.lo)

RECURSIVE Concat(_)
Concat(ss) == IF ss = <<>> THEN <<>> ELSE ss[1] \o Concat(Tail(ss))

Prefixes(s) == {SubSeq(s, 1, n) : n \in 0..Len(s)}

Bbox == <<0, 0, 0, 0, 0, 0, 0, 0>>

FileHeader(n) == <<0, 1, 0, 0>> \o BE16(n) \o <<0, 0, 0, 0, 0, 0>>

DirEntry(tag, off) == tag \o <<0, 0, 0, 0>> \o BE32(off) \o <<0, 0, 0, 0>>

\* the layout of the built files: header, four directory entries, maxp (6
\* bytes), the indexToLocFormat field of head, loca, glyf
MaxpAt == 12 + 4 * 16

FormatAt == MaxpAt + 6

HeadAt == FormatAt - 50

LocaAt == FormatAt + 2

StdDirectory(glyf_off) ==
    <<DirEntry(TagMaxp, Wide(MaxpAt)), DirEntry(TagHead, Wide(HeadAt)),
      DirEntry(TagLoca, Wide(LocaAt)), DirEntry(TagGlyf, glyf_off)>>

FontFile(dir, ng, fmt, loca, glyf) ==
    FileHeader(Len(dir)) \o Concat(dir) \o <<0, 1, 0, 0>> \o BE16(ng)
        \o BE16(fmt) \o loca \o glyf

LocaEntry(fmt, e) == IF fmt = 0 THEN BE16(e \div 2) ELSE BE32(Wide(e))

\* a font of one glyph, whose record is the rest of the file
OneGlyphFont(fmt, rec) ==
    FontFile(StdDirectory(Wide(LocaAt + EntryWidth(fmt = 0))), 1, fmt,
             LocaEntry(fmt, 0), rec)

ByteAlphabet == {0, 2, 55, 56, 255}

Tails == UNION {[1..n -> ByteAlphabet] : n \in 0..MaxTail}

EndChoices == {0, 1, 2}

InstrChoices == {0, 1, 65524, 32768}

SimpleRecord(ends, instr, tail) ==
    BE16(Len(ends)) \o Bbox \o Concat([k \in 1..Len(ends) |-> BE16(ends[k])])
        \o BE16(instr) \o tail

\* x deltas 10, -5, 0 as short, long and same; y deltas all same
SpecDeltas == SimpleRecord(<<2>>, 0, <<51, 33, 49, 10, 255, 251>>)

\* one contour of three on-curve points, short deltas only
Triangle == SimpleRecord(<<2>>, 0, <<55, 23, 39, 10, 30, 5, 20, 5, 7>>)

\* two points whose x deltas are 32767 and 1
WideDeltas == SimpleRecord(<<1>>, 0, <<1, 55, 127, 255, 1, 0, 0, 0>>)

\* a last contour end of 65535
TopEnd == SimpleRecord(<<65535>>, 0, <<55, 1, 1>>)

\* 65535 points, and 256 runs of 256 flags
LongRuns ==
    SimpleRecord(<<65534>>, 0, Concat([k \in 1..256 |-> <<56, 255>>]))

CompoundRecord == BE16(65535) \o Bbox \o <<0, 33, 0, 1>>

EmptyRecord == SimpleRecord(<<>>, 0, <<55, 1, 1>>)

\* one point, a flag of repeat, x same and y same, and every repeat count
RunRecords == {SimpleRecord(<<0>>, 0, <<56, n>>) : n \in 0..(TwoTo8 - 1)}

\* every flag byte, followed by a count of 1 (if the flag repeats) and by
\* coordinate bytes
FlagRecords ==
    {SimpleRecord(<<1>>, 0, <<F, 1, 0, 3, 255, 252, 0, 5, 255, 250>>) :
        F \in 0..(TwoTo8 - 1)}

GlyphRecords ==
    {SimpleRecord(<<e>>, il, t) : e \in EndChoices, il \in InstrChoices, t \in Tails}
    \cup {SimpleRecord(<<0, 1>>, 0, t) : t \in Tails}
    \cup Prefixes(Triangle)
    \cup Prefixes(CompoundRecord)
    \cup RunRecords
    \cup FlagRecords
    \cup {SpecDeltas, WideDeltas, TopEnd, LongRuns, EmptyRecord,
          BE16(32768) \o Bbox}

GlyphFonts ==
    {OneGlyphFont(0, rec) : rec \in GlyphRecords}
    \cup {OneGlyphFont(1, rec) : rec \in {Triangle, SpecDeltas, CompoundRecord}}

\* fonts of up to MaxGlyphs glyphs over a bank of records; the loca entries are
\* chosen per glyph.  The bank holds a good glyph, a compound glyph, a record of
\* no contours and a truncated record; every record starts at an even offset.
Bank == <<Triangle \o <<0>>, CompoundRecord, SimpleRecord(<<0>>, 0, <<55>>)>>

BankBytes == Concat(Bank)

RECURSIVE BankOffset(_)
BankOffset(k) == IF k = 1 THEN 0 ELSE BankOffset(k - 1) + Len(Bank[k - 1])

\* the offsets a loca entry may hold, relative to the start of the bank: the
\* records, the end of the file, and places past the end of the file
EntryChoices ==
    {BankOffset(k) : k \in 1..Len(Bank)} \cup {Len(BankBytes), Len(BankBytes) + 2, 1000}

BankFont(fmt, entries) ==
    LET n == Len(entries)
        w == EntryWidth(fmt = 0)
    IN  FontFile(StdDirectory(Wide(LocaAt + n * w)), n, fmt,
                 Concat([k \in 1..n |-> LocaEntry(fmt, entries[k])]), BankBytes)

\* the same with the glyf table offset 2^32 - 2: the entry that reaches the
\* record at file position q is q + 2
HighGlyf == [hi |-> TwoTo16 - 1, lo |-> TwoTo16 - 2]

HighFont(fmt, entries) ==
    LET n == Len(entries)
        w == EntryWidth(fmt = 0)
    IN  FontFile(StdDirectory(HighGlyf), n, fmt,
                 Concat([k \in 1..n |->
                            LocaEntry(fmt, LocaAt + n * w + entries[k] + 2)]),
                 BankBytes)

EntryLists == UNION {[1..n -> EntryChoices] : n \in 0..MaxGlyphs}

BankFonts ==
    {BankFont(fmt, es) : fmt \in {0, 1}, es \in EntryLists}
    \cup {HighFont(fmt, es) : fmt \in {0, 1},
                              es \in {<<0>>, <<BankOffset(2)>>, <<0, BankOffset(2)>>}}

\* files whose header or directory is short, lacks a table, repeats a tag or
\* holds a tag that is no text, and table offsets at the top of the u32 range
GoodFont == BankFont(1, <<0>>)

WithDirectory(dir) == FontFile(dir, 1, 1, LocaEntry(1, 0), BankBytes)

OddFonts ==
    Prefixes(SubSeq(GoodFont, 1, 30))
    \cup {SubSeq(GoodFont, 1, n) : n \in {MaxpAt, MaxpAt + 5, FormatAt + 1, LocaAt + 2}}
    \cup {WithDirectory(SubSeq(StdDirectory(Wide(LocaAt + 4)), 1, n)) : n \in 0..3}
    \cup {WithDirectory(<<DirEntry(TagHead, Wide(HeadAt)),
                          DirEntry(TagLoca, Wide(LocaAt)),
                          DirEntry(TagMaxp, Wide(MaxpAt)),
                          DirEntry(TagMaxp, Wide(MaxpAt))>>),
          WithDirectory(<<DirEntry(TagMaxp, Wide(MaxpAt)),
                          DirEntry(TagHead, Wide(HeadAt)),
                          DirEntry(TagGlyf, Wide(LocaAt + 4)),
                          DirEntry(TagGlyf, Wide(LocaAt + 4))>>),
          WithDirectory(<<DirEntry(TagMaxp, Wide(MaxpAt)),
                          DirEntry(TagHead, Wide(HeadAt)),
                          DirEntry(<<255, 111, 99, 97>>, Wide(LocaAt)),
                          DirEntry(TagGlyf, Wide(LocaAt + 4))>>),
          WithDirectory(<<DirEntry(TagMaxp, Wide(1000)),
                          DirEntry(TagHead, Wide(HeadAt)),
                          DirEntry(TagLoca, Wide(LocaAt)),
                          DirEntry(TagGlyf, Wide(LocaAt + 4))>>),
          WithDirectory(<<DirEntry(TagMaxp, Wide(MaxpAt)),
                          DirEntry(TagHead, [hi |-> TwoTo16 - 1, lo |-> TwoTo16 - 40]),
                          DirEntry(TagLoca, Wide(LocaAt)),
                          DirEntry(TagGlyf, Wide(LocaAt + 4))>>),
          WithDirectory(<<DirEntry(TagMaxp, Wide(MaxpAt)),
                          DirEntry(TagHead, Wide(HeadAt)),
                          DirEntry(TagLoca, [hi |-> TwoTo16 - 1, lo |-> 0]),
                          DirEntry(TagGlyf, Wide(LocaAt + 4))>>),
          WithDirectory(<<DirEntry(TagMaxp, Wide(MaxpAt)),
                          DirEntry(TagLoca, Wide(LocaAt)),
                          DirEntry(TagHead, Wide(HeadAt)),
                          DirEntry(TagLoca, Wide(LocaAt)),
                          DirEntry(TagGlyf, Wide(LocaAt + 20))>>)}

Inputs == GlyphFonts \cup BankFonts \cup OddFonts

-----------------------------------------------------------------------------
(* The state machine *)

Init ==
    /\ opened \in BOOLEAN
    /\ contents \in (IF opened THEN Inputs ELSE {<<>>})
    /\ overflow_checks \in BOOLEAN
    /\ pc = "open"
    /\ tables = <<>>
    /\ num_glyphs = 0
    /\ use_two_byte_entry = FALSE
    /\ glyph_locations = <<>>
    /\ glyph_data = <<>>
    /\ glyph_start_offsets = <<>>
    /\ i = 0
    /\ pos = 0
    /\ start = 0
    /\ num_contours = 0
    /\ contour_end_indices = <<>>
    /\ num_points = 0
    /\ fi = 0
    /\ flags = <<>>
    /\ x_coords = <<>>
    /\ y_coords = <<>>
    /\ ci = 0
    /\ coords = <<>>
    /\ nread = 0
    /\ fault = "none"

Next ==
    \/ OpenFile
    \/ ReadDirectory
    \/ ReadMaxp
    \/ ReadHead
    \/ LookupTables
    \/ LocateGlyph
    \/ BeginGlyph
    \/ Header
    \/ ContourBounds
    \/ Instructions
    \/ FlagStep
    \/ CoordStep
    \/ CoordsReturn
    \/ MatchResult
    \/ Return

Spec == Init /\ [][Next]_vars

-----------------------------------------------------------------------------
(* Properties *)

GlyphPhases ==
    {"g_header", "g_contours", "g_instr", "g_flags", "g_xcoords", "g_ycoords"}

GlyphPanics ==
    {"no_contours", "num_points_overflow", "flag_counter_overflow",
     "coord_overflow"}

\* the sum of two u32 values, not reduced modulo 2^32
ExactSum(a, b) ==
    [hi |-> a.hi + b.hi + ((a.lo + b.lo) \div TwoTo16),
     lo |-> (a.lo + b.lo) % TwoTo16]

\* the loca entry of glyph index k (0-based) as the file holds it, as a byte
\* offset into glyf
LocaValue(k) ==
    LET base == WideToInt(tables[TagLoca].offset)
    IN  IF use_two_byte_entry
        THEN Wide(2 * (contents[base + 2 * k + 1] * TwoTo8
                       + contents[base + 2 * k + 2]))
        ELSE [hi |-> contents[base + 4 * k + 1] * TwoTo8
                     + contents[base + 4 * k + 2],
              lo |-> contents[base + 4 * k + 3] * TwoTo8
                     + contents[base + 4 * k + 4]]

CompoundMarker ==
    [x_coords |-> <<>>, y_coords |-> <<>>, contour_end_indices |-> <<>>,
     is_simple |-> FALSE]

\* C1: when read_truetype returns a Font, the glyph list has exactly numGlyphs
\* entries, one per glyph index, also when the decode of some glyph failed.
C1_GlyphListComplete ==
    pc = "returned" => Len(glyph_data) = num_glyphs

\* C2: a glyph returned as simple has exactly contour_end_indices.last() + 1
\* points: flags, x_coords and y_coords all have that length.
C2_PointCount ==
    (pc = "g_ok" /\ num_contours >= 0) =>
        LET n == contour_end_indices[Len(contour_end_indices)] + 1
        IN  /\ Len(flags) = n
            /\ Len(x_coords) = n
            /\ Len(y_coords) = n

\* C3: one iteration of the flag loop that finds its bytes appends n + 1 copies
\* of a flag byte F with bit 3 set, n being the next byte, and consumes both
\* bytes; it appends F once and consumes one byte when bit 3 of F is clear.
C3_FlagExpansion ==
    [][(pc = "g_flags" /\ pc' # "g_err") =>
          LET F == contents[pos + 1]
          IN  IF (F \div 8) % 2 = 1
              THEN LET n == contents[pos + 2]
                   IN  /\ Len(flags') = Len(flags) + n + 1
                       /\ SubSeq(flags', 1, Len(flags)) = flags
                       /\ \A k \in (Len(flags) + 1)..Len(flags') : flags'[k] = F
                       /\ nread' = nread + 2
                       /\ pos' = pos + 2
              ELSE /\ flags' = Append(flags, F)
                   /\ nread' = nread + 1
                   /\ pos' = pos + 1]_vars

\* a run of 256 flags was produced from one flag byte and a count byte of 255
C3_Witness ==
    /\ pc = "g_xcoords"
    /\ Len(flags) = 256
    /\ nread = 8
    /\ contents[pos] = 255

\* C4: each iteration of the coordinate loop whose bytes are there stores the
\* previous coordinate (0 before the first point) plus the delta of the point:
\* plus or minus one unsigned byte (short bit set, sign bit set means plus), 0
\* and no byte (short clear, same set), one signed 16-bit value (both clear);
\* x uses bits 1 and 4, y uses bits 2 and 5, x is decoded before y.
C4_CumulativeSum ==
    [][(pc \in {"g_xcoords", "g_ycoords"} /\ ci < Len(flags) /\ pc' # "g_err") =>
          LET F == flags[ci + 1]
              short == IF pc = "g_xcoords" THEN (F \div 2) % 2 = 1
                                           ELSE (F \div 4) % 2 = 1
              same == IF pc = "g_xcoords" THEN (F \div 16) % 2 = 1
                                          ELSE (F \div 32) % 2 = 1
              d == IF short THEN (IF same THEN contents[pos + 1]
                                          ELSE 0 - contents[pos + 1])
                   ELSE IF same THEN 0
                   ELSE LET v == contents[pos + 1] * TwoTo8 + contents[pos + 2]
                        IN  IF v >= TwoTo15 THEN v - TwoTo16 ELSE v
              used == IF short THEN 1 ELSE IF same THEN 0 ELSE 2
              before == IF ci = 0 THEN 0 ELSE coords[ci]
          IN  /\ pc' = pc
              /\ ci' = ci + 1
              /\ coords'[ci + 1] = before + d
              /\ pos' = pos + used]_vars

\* C5: glyph index i is decoded at glyf_table_offset + 2 e (indexToLocFormat
\* 0, e the u16 at loca_offset + 2 i) or glyf_table_offset + e (any other
\* format, e the u32 at loca_offset + 4 i).
C5_DecodeOffset ==
    pc = "g_header" =>
        Wide(start) = ExactSum(tables[TagGlyf].offset, LocaValue(i))

\* C6: when glyf_table_offset plus the loca value of a located glyph index
\* exceeds the length of the file, location fails with the glyph offset error;
\* and no decode starts past the end of the file.
C6_OffsetInRange ==
    /\ \A k \in 1..Len(glyph_start_offsets) :
          WideGT(ExactSum(tables[TagGlyf].offset, glyph_start_offsets[k]),
                 Len(contents))
             => (pc = "error" /\ fault = "glyph_offset")
    /\ pc = "g_header" => start <= Len(contents)

\* C7: a record whose numberOfContours is negative yields the compound marker,
\* and nothing but the two bytes of numberOfContours is read from the cursor.
C7_CompoundReadsNothing ==
    (pc \in GlyphPhases \cup {"g_ok", "g_err", "panic"} /\ num_contours < 0) =>
        /\ pc = "g_ok"
        /\ nread = 2
        /\ flags = <<>>
        /\ GlyphValue = CompoundMarker

\* a compound glyph was returned from a record that has bytes after its header
C7_Witness ==
    /\ pc = "g_ok"
    /\ num_contours = 0 - 1
    /\ nread = 2
    /\ CanRead(contents, pos, 4)

\* C8: the decode of a record whose numberOfContours is 0 ends in a
\* MalformedGlyph error returned to the caller, never in a panic.
C8_EmptyContoursIsError ==
    (pc \in {"g_instr", "g_flags", "g_xcoords", "g_ycoords", "g_ok", "g_err",
             "panic"}
        /\ nread >= 2 /\ num_contours = 0) =>
        (pc = "g_err" /\ fault = "malformed_glyph")

\* C9: during the decode of a glyph the cursor never moves back, and the
\* instruction phase moves it by the two bytes of instructionLength and then by
\* instructionLength bytes, read as an unsigned 16-bit value.
C9_ForwardCursor ==
    [][(pc \in GlyphPhases) =>
          /\ pos' >= pos
          /\ (pc = "g_instr" /\ pc' # "g_err") =>
                pos' = pos + 2 + (contents[pos + 1] * TwoTo8 + contents[pos + 2])]_vars

\* C10: a call of from_cursor ends by returning a glyph or an error: it never
\* ends in a panic, whatever the point count and the loop counter are.
C10_DecodeReturns ==
    pc = "panic" => fault \notin GlyphPanics

=============================================================================
